---------------------------- MODULE Spec2Model ----------------------------
(***************************************************************************)
(* A model of amginspect, a decoder of AmigaOS Hunk executables.           *)
(*                                                                         *)
(* The decoder (src/unnamed/part_000) reads a byte stream through a        *)
(* Buffer{stream, offset}.  Every cursor operation of the program is one   *)
(* action of this model; pc is the position of the control flow.           *)
(*                                                                         *)
(* src/main.go is an earlier program of the same repository: it makes the  *)
(* header and hunk-table pass alone, over the bare byte slice, with the    *)
(* offset threaded through its calls.  Its state is the main_ variables    *)
(* and its functions are the main_ actions.                                *)
(*                                                                         *)
(* Numbers.  TLC's integers are 32-bit signed, so a Go uint32 is kept as   *)
(* the pair <<hi, lo>> of its 16-bit halves (value hi * 2^16 + lo), and a  *)
(* Go uint (the cursor offset) as a pair <<hi, lo>> whose hi part is       *)
(* reduced modulo 2^16 when uint is 32 bits wide.  Go's int and uint are   *)
(* 32 or 64 bits wide depending on the build target; uintBits is chosen in *)
(* Init and never changes.                                                 *)
(***************************************************************************)
EXTENDS Integers, Sequences, FiniteSets, TLC

VARIABLES
    stream,      \* Buffer.stream: the bytes below len(stream)
    capacity,    \* cap(Buffer.stream): Go checks slice bounds against it
    uintBits,    \* width of Go's int and uint on the build target: 32 or 64
    offset,      \* Buffer.offset, a uint
    pc,          \* position of the control flow, or how the process ended
    hTableSize,  \* processFile: hTableSize
    firstHunk,   \* processFile: firstHunk
    lastHunk,    \* processFile: lastHunk
    totalHunks,  \* processFile: totalHunks
    hSizes,      \* hunkSizes: result
    hunk,        \* processFile: i of the loop over the hunks
    i,           \* loop index of hunkSizes, dumpCodeBlock (i), dumpReloc32Block (offs)
    n,           \* hunkSize of dumpCodeBlock, n of dumpReloc32Block, blockSize of dumpDataBlock
    relocI,      \* dumpReloc32Block: i
    lwNumber,    \* dumpCodeBlock: lwNumber
    out,         \* the lines printed so far, each <<kind, payload>>
    blockAt,     \* history: offset of the current block's tag and Len(out) before it
    rewinds,     \* history: how many skips have moved the cursor backward
    firstRun,    \* history: the file as loaded, and how an earlier decode of it ended
    main_pc,          \* src/main.go: position of the control flow, or how it ended
    main_offset,      \* src/main.go: residentLibEnd, nextOffset, currentOffset
    main_hTableSize,  \* src/main.go processFile: hTableSize
    main_firstHunk,   \* src/main.go processFile: firstHunk
    main_lastHunk,    \* src/main.go processFile: lastHunk
    main_totalHunks,  \* src/main.go processFile: totalHunks
    main_hSizes,      \* src/main.go hunkSizes: result
    main_i,           \* src/main.go hunkSizes: i
    main_out          \* src/main.go: the lines printed so far

\* The state of src/main.go's pass.
mainVars == <<main_pc, main_offset, main_hTableSize, main_firstHunk, main_lastHunk,
              main_totalHunks, main_hSizes, main_i, main_out>>

\* The state of the decoder of src/unnamed/part_000.
bufferVars == <<offset, pc, hTableSize, firstHunk, lastHunk, totalHunks, hSizes, hunk,
                i, n, relocI, lwNumber, out, blockAt, rewinds, firstRun>>

vars == <<stream, capacity, uintBits, bufferVars, mainVars>>

---------------------------------------------------------------------------
(* Bounds of the model. *)

\* The most blocks in the body of a generated file image.
MaxBlocks == 2

\* The most hidden bytes between len(stream) and cap(stream).
MaxSlack == 4

\* A decode that moves its cursor backward can go on forever, printing; the
\* model follows it through this many backward skips.
MaxRewinds == 2

---------------------------------------------------------------------------
(* Program constants. *)

LONGWORD_SIZE == 4

HunkUnit == 999
HunkName == 1000
HunkCode == 1001
HunkData == 1002
HunkBSS == 1003
HunkReloc32 == 1004
HunkReloc16 == 1005
HunkEnd == 1010

hunkTypeMap == {HunkUnit, HunkName, HunkCode, HunkData, HunkBSS, HunkReloc32,
                HunkReloc16, HunkEnd}

longWordsPerLine == 4

---------------------------------------------------------------------------
(* Fixed-width arithmetic. *)

Half == 256 * 256

\* The uint32 (or uint) of a small natural number.
U(k) == <<k \div Half, k % Half>>

\* uint32 addition, wrapping modulo 2^32.
U32Add(a, b) ==
    LET s == a[2] + b[2]
    IN  <<(a[1] + b[1] + s \div Half) % Half, s % Half>>

\* uint32 subtraction, wrapping modulo 2^32.
U32Sub(a, b) ==
    LET borrow == IF a[2] < b[2] THEN 1 ELSE 0
    IN  <<(a[1] - b[1] - borrow + 2 * Half) % Half, (a[2] - b[2] + Half) % Half>>

\* uint32 multiplication by a small constant, wrapping modulo 2^32.
U32MulSmall(a, k) ==
    LET p == a[2] * k
    IN  <<(a[1] * k + p \div Half) % Half, p % Half>>

\* uint32 left shift by 8 bits; the bits shifted out are lost.
U32Shl8(a) == <<(a[1] % 256) * 256 + a[2] \div 256, (a[2] % 256) * 256>>

RECURSIVE U32Shl(_, _)
\* uint32 left shift by a multiple of 8 bits.
U32Shl(a, bits) == IF bits = 0 THEN a ELSE U32Shl(U32Shl8(a), bits - 8)

\* uint addition on a build whose uint is `bits` wide.  A 64-bit uint wraps at
\* 2^64, which no offset of this program comes near: an offset beyond the
\* capacity makes the next read panic, and one skip adds less than 2^32.
UintAdd(a, b, bits) ==
    LET s == a[2] + b[2]
        h == a[1] + b[1] + s \div Half
    IN  <<IF bits = 32 THEN h % Half ELSE h, s % Half>>

\* uint subtraction on a build whose uint is `bits` wide (a >= b, or 32 bits).
UintSub(a, b, bits) ==
    LET borrow == IF a[2] < b[2] THEN 1 ELSE 0
        h == a[1] - b[1] - borrow
    IN  <<IF bits = 32 THEN (h + 2 * Half) % Half ELSE h, (a[2] - b[2] + Half) % Half>>

UintLe(a, b) == a[1] < b[1] \/ (a[1] = b[1] /\ a[2] <= b[2])

\* k < int(x) for a loop index k < 2^16 and a uint32 x: where int is 32 bits
\* wide, int(x) is negative for x >= 2^31.
IntLess(k, x, bits) ==
    IF bits = 32 /\ x[1] >= Half \div 2 THEN FALSE ELSE x[1] > 0 \/ k < x[2]

---------------------------------------------------------------------------
(* The byte stream and the cursor. *)

\* The byte at 0-based index k of the backing array.  The bytes between
\* len(stream) and cap(stream) are the zero bytes os.ReadFile's make left.
ByteAt(s, k) == IF k < Len(s) THEN s[k + 1] ELSE 0

\* Go's check of stream[low : low+LONGWORD_SIZE]: low <= high <= cap(stream).
SliceInBounds(low, cap, bits) ==
    LET high == UintAdd(low, U(LONGWORD_SIZE), bits)
    IN  UintLe(low, high) /\ UintLe(high, U(cap))

longWordSlice(s, low) ==
    <<ByteAt(s, low[2]), ByteAt(s, low[2] + 1), ByteAt(s, low[2] + 2),
      ByteAt(s, low[2] + 3)>>

\* longWordValue with the bytes taken in little-endian order.
longWordValueLittleEndian(s, low) ==
    LET slice == longWordSlice(s, low)
    IN  U32Add(U32Add(U32Add(U(slice[1]), U32Shl(U(slice[2]), 8)),
                      U32Shl(U(slice[3]), 16)),
               U32Shl(U(slice[4]), 24))

longWordValue(s, low) ==
    LET slice == longWordSlice(s, low)
    IN  U32Add(U32Add(U32Add(U(slice[4]), U32Shl(U(slice[3]), 8)),
                      U32Shl(U(slice[2]), 16)),
               U32Shl(U(slice[1]), 24))

\* Buffer.nextLongWord: the offset moves first, then the word at the old offset
\* is sliced; an out-of-range slice panics with the offset already moved.
nextLongWord ==
    LET after == UintAdd(offset, U(LONGWORD_SIZE), uintBits)
        low == UintSub(after, U(LONGWORD_SIZE), uintBits)
    IN  [offset |-> after,
         ok |-> SliceInBounds(low, capacity, uintBits),
         value |-> longWordValue(stream, low)]

nextLongWordAsSlice ==
    LET after == UintAdd(offset, U(LONGWORD_SIZE), uintBits)
        low == UintSub(after, U(LONGWORD_SIZE), uintBits)
    IN  [offset |-> after,
         ok |-> SliceInBounds(low, capacity, uintBits),
         slice |-> longWordSlice(stream, low)]

\* Buffer.advancePointer: no bounds check.
advancePointer(by) == UintAdd(offset, by, uintBits)

\* createBuffer with the offset of the decode before it, as if the cursor
\* were shared between the decodes.
createBufferShared(bytes) ==
    [stream |-> bytes, offset |-> IF pc # "checkHunkHeader" THEN offset ELSE U(0)]

createBuffer(bytes) == [stream |-> bytes, offset |-> U(0)]

---------------------------------------------------------------------------
(* The file images the decode is run on. *)

\* The four bytes of a long word, big-endian, as a file holds it.
BytesOf(w) == <<w[1] \div 256, w[1] % 256, w[2] \div 256, w[2] % 256>>

RECURSIVE Flatten(_)
Flatten(words) ==
    IF words = <<>> THEN <<>> ELSE BytesOf(Head(words)) \o Flatten(Tail(words))

MagicCookie == <<0, 3 * 256 + 243>>       \* 0x000003F3
NotMagic == <<0, 3 * 256 + 242>>          \* 0x000003F2
WordA == <<43707, 52445>>                 \* 0xAABBCCDD
WordB == <<4386, 13124>>                  \* 0x11223344
WrapTo4 == <<16384, 1>>                   \* 0x40000001: times 4 is 4 modulo 2^32
WrapBack == <<16383, 65534>>              \* 0x3FFFFFFE: times 4 is 2^32 - 8
Negative == <<32768, 0>>                  \* 0x80000000: negative as a 32-bit int
AllOnes == <<65535, 65535>>               \* 0xFFFFFFFF

\* Blocks other than End, tag first.
Blocks ==
    { <<U(HunkCode), U(5), WordA, WordB, U(7), AllOnes, U(HunkEnd)>>,
      <<U(HunkData), U(1), WordA>>,
      <<U(HunkData), WrapTo4, WordA>>,
      <<U(HunkData), WrapBack>>,
      <<U(HunkBSS), U(3)>>,
      <<U(HunkReloc32), U(2), U(5), U(16), U(32), U(0)>>,
      <<U(HunkUnit)>>,
      <<U(291)>> }

\* More blocks, met only alone: empty ones, counts no buffer can hold, and the
\* tags that are only named.
OddBlocks ==
    { <<U(HunkCode), U(0)>>,
      <<U(HunkCode), U(2), WordA, WordB>>,
      <<U(HunkCode), U(1), WordA>>,
      <<U(HunkCode), U(4), WordA, WordB, U(7), AllOnes>>,
      <<U(HunkCode), Negative>>,
      <<U(HunkData), U(0)>>,
      <<U(HunkData), <<16384, 0>>>>,
      <<U(HunkReloc32), U(0)>>,
      <<U(HunkReloc32), U(1), U(0), U(16), U(2), U(1), U(32), U(36), U(0)>>,
      <<U(HunkReloc32), Negative, U(5), U(0)>>,
      <<U(HunkName)>>,
      <<U(HunkReloc16)>>,
      <<<<1, HunkCode>>>>,
      <<U(HunkBSS), AllOnes>> }

RECURSIVE BlockSeqs(_)
\* The word sequences of at most k blocks.
BlockSeqs(k) ==
    IF k = 0 THEN {<<>>}
    ELSE LET shorter == BlockSeqs(k - 1)
         IN  shorter \cup {b \o blk : b \in shorter, blk \in Blocks}

\* A hunk: blocks, then End or (a malformed file) nothing.
Hunks(k) == {b \o e : b \in BlockSeqs(k), e \in {<<U(HunkEnd)>>, <<>>}}

SecondHunks == {<<>>, <<U(HunkEnd)>>, <<U(HunkCode), U(1), WordB, U(HunkEnd)>>}

\* Hunk-table headers: first hunk, last hunk and the size array of a well-formed
\* file (empty where last - first + 1 is not the length of anything).
Tables ==
    { <<U(0), U(0), U(16)>>,
      <<U(0), U(1), U(16), U(32)>>,
      <<U(1), U(1), U(16)>>,
      <<U(0), U(2), U(16), U(32), U(48)>>,
      <<U(1), U(0)>>,
      <<U(2), U(1)>>,
      <<U(2), U(0)>>,
      <<U(0), AllOnes>> }

Prefixes(s) == {SubSeq(s, 1, k) : k \in 0..Len(s)}

\* Whole files of one or two hunks.
WholeImages ==
    { Flatten(<<MagicCookie, U(0), U(1), U(0), U(0), U(16)>> \o h) :
        h \in Hunks(MaxBlocks) }
    \cup
    { Flatten(<<MagicCookie, U(0), U(2), U(0), U(1), U(16), U(32)>> \o h
              \o <<U(HunkEnd)>> \o h2) :
        h \in BlockSeqs(MaxBlocks), h2 \in SecondHunks }

\* Files of every header, resident-library word and hunk table, with at most
\* one block, and each of them cut after any number of bytes.
ShortImages ==
    UNION { Prefixes(Flatten(<<hd, res, U(3)>> \o t \o b \o e)) :
        hd \in {MagicCookie}, res \in {U(0)}, t \in Tables,
        b \in BlockSeqs(1) \cup OddBlocks, e \in {<<U(HunkEnd)>>} }
    \cup
    UNION { Prefixes(Flatten(<<hd, res, U(1), U(0), U(0), U(16), U(HunkEnd)>>)) :
        hd \in {MagicCookie, NotMagic, <<243 * 256 + 3, 0>>},
        res \in {U(0), U(1), <<256, 0>>} }

Images == WholeImages \cup ShortImages

\* cap(stream) - len(stream): one hidden byte matters only where the last long
\* word of the file is cut.
Slacks(bytes) == IF Len(bytes) % LONGWORD_SIZE = 0 THEN {0, MaxSlack} ELSE {0, 1, MaxSlack}

---------------------------------------------------------------------------
(* The decode. *)

\* fmt.Printf and fmt.Println: one more line of output.
Printf(kind, payload) == Append(out, <<kind, payload>>)

\* The locals of processFile and of the block decoders before the decode, and
\* the state of src/main.go's pass before it.
StartOfDecode ==
    /\ pc = "checkHunkHeader"
    /\ hTableSize = U(0)
    /\ firstHunk = U(0)
    /\ lastHunk = U(0)
    /\ totalHunks = U(0)
    /\ hSizes = <<>>
    /\ hunk = 0
    /\ i = 0
    /\ n = U(0)
    /\ relocI = 0
    /\ lwNumber = 0
    /\ out = <<>>
    /\ blockAt = [offset |-> U(0), out |-> 0]
    /\ rewinds = 0
    /\ main_pc = "checkHunkHeader"
    /\ main_offset = U(0)
    /\ main_hTableSize = U(0)
    /\ main_firstHunk = U(0)
    /\ main_lastHunk = U(0)
    /\ main_totalHunks = U(0)
    /\ main_hSizes = <<>>
    /\ main_i = 0
    /\ main_out = <<>>

\* main: one of the files is read and a Buffer is created on its bytes.
Loaded(files) ==
    /\ StartOfDecode
    /\ \E bytes \in files, bits \in {32, 64} :
           \E slack \in Slacks(bytes) :
               /\ firstRun = [stream |-> bytes, pc |-> "", offset |-> U(0), out |-> <<>>]
               /\ stream = createBuffer(bytes).stream
               /\ offset = createBuffer(bytes).offset
               /\ capacity = Len(bytes) + slack
               /\ uintBits = bits

Init == Loaded(Images)

\* A slice expression out of range: the Go runtime panics and the process dies
\* with the cursor already moved.
Panic(after) ==
    /\ offset' = after
    /\ pc' = "panic"

\* The test of checkHunkHeader with the cookie accepted in either byte order.
isMagicCookieEitherOrder(header) ==
    \/ header[1] = 0 /\ header[2] = 0 /\ header[3] = 3 /\ header[4] = 243
    \/ header[4] = 0 /\ header[3] = 0 /\ header[2] = 3 /\ header[1] = 243

\* The test of checkHunkHeader with every byte but the last compared.
isMagicCookieButLast(header) ==
    header[1] = 0 /\ header[2] = 0 /\ header[3] = 3

\* The test of checkHunkHeader on the four bytes of the slice it has read.
isMagicCookie(header) ==
    header[1] = 0 /\ header[2] = 0 /\ header[3] = 3 /\ header[4] = 243

\* checkHunkHeader, and processFile's return on a wrong header.
checkHunkHeader ==
    /\ pc = "checkHunkHeader"
    /\ LET r == nextLongWordAsSlice
           header == r.slice
       IN  IF ~r.ok
           THEN Panic(r.offset) /\ UNCHANGED out
           ELSE /\ offset' = r.offset
                /\ IF isMagicCookie(header)
                   THEN /\ out' = Printf("Header check OK", <<>>)
                        /\ pc' = "residentLibraries"
                   ELSE /\ out' = Printf("Incorrect header for Amiga Executable", <<>>)
                        /\ pc' = "badHeader"
    /\ UNCHANGED <<stream, capacity, uintBits, hTableSize, firstHunk, lastHunk,
                   totalHunks, hSizes, hunk, i, n, relocI, lwNumber, blockAt, rewinds, firstRun, mainVars>>

\* residentLibraries: a nonzero word ends the process with os.Exit(0).
residentLibraries ==
    /\ pc = "residentLibraries"
    /\ LET r == nextLongWord
       IN  IF ~r.ok
           THEN Panic(r.offset) /\ UNCHANGED out
           ELSE /\ offset' = r.offset
                /\ IF r.value # U(0)
                   THEN /\ out' = Printf("Calls to resident libraries found", <<>>)
                        /\ pc' = "osExit0"
                   ELSE /\ out' = Printf("No calls to resident libraries found", <<>>)
                        /\ pc' = "hunkTableSize"
    /\ UNCHANGED <<stream, capacity, uintBits, hTableSize, firstHunk, lastHunk,
                   totalHunks, hSizes, hunk, i, n, relocI, lwNumber, blockAt, rewinds, firstRun, mainVars>>

hunkTableSize ==
    /\ pc = "hunkTableSize"
    /\ LET r == nextLongWord
       IN  IF ~r.ok
           THEN Panic(r.offset) /\ UNCHANGED <<out, hTableSize>>
           ELSE /\ offset' = r.offset
                /\ hTableSize' = r.value
                /\ out' = Printf("Hunk table size", r.value)
                /\ pc' = "firstHunkNumber"
    /\ UNCHANGED <<stream, capacity, uintBits, firstHunk, lastHunk,
                   totalHunks, hSizes, hunk, i, n, relocI, lwNumber, blockAt, rewinds, firstRun, mainVars>>

firstHunkNumber ==
    /\ pc = "firstHunkNumber"
    /\ LET r == nextLongWord
       IN  IF ~r.ok
           THEN Panic(r.offset) /\ UNCHANGED <<out, firstHunk>>
           ELSE /\ offset' = r.offset
                /\ firstHunk' = r.value
                /\ out' = Printf("First hunk", r.value)
                /\ pc' = "lastHunkNumber"
    /\ UNCHANGED <<stream, capacity, uintBits, hTableSize, lastHunk,
                   totalHunks, hSizes, hunk, i, n, relocI, lwNumber, blockAt, rewinds, firstRun, mainVars>>

\* hunkCount without the + 1.
hunkCountExclusive(first, last) == U32Sub(last, first)

\* totalHunks := lastHunk - firstHunk + 1, in uint32.
hunkCount(first, last) == U32Add(U32Sub(last, first), U(1))

\* lastHunkNumber, and processFile's computation of totalHunks.
lastHunkNumber ==
    /\ pc = "lastHunkNumber"
    /\ LET r == nextLongWord
           total == hunkCount(firstHunk, r.value)
       IN  IF ~r.ok
           THEN Panic(r.offset) /\ UNCHANGED <<out, lastHunk, totalHunks, i, hSizes>>
           ELSE /\ offset' = r.offset
                /\ lastHunk' = r.value
                /\ totalHunks' = total
                /\ out' = out \o <<<<"Last hunk", r.value>>,
                                   <<"Total number of hunks in file", total>>>>
                /\ i' = 0
                /\ hSizes' = <<>>
                /\ pc' = "hunkSizes"
    /\ UNCHANGED <<stream, capacity, uintBits, hTableSize, firstHunk,
                   hunk, n, relocI, lwNumber, blockAt, rewinds, firstRun, mainVars>>

\* The loop test of hunkSizes: i < int(hunks).
hunkSizesMore(k, hunks, bits) == IntLess(k, hunks, bits)

\* One iteration of the loop of hunkSizes.
hunkSizes ==
    /\ pc = "hunkSizes"
    /\ hunkSizesMore(i, totalHunks, uintBits)
    /\ LET r == nextLongWord
       IN  IF ~r.ok
           THEN Panic(r.offset) /\ UNCHANGED <<hSizes, i>>
           ELSE /\ offset' = r.offset
                /\ hSizes' = Append(hSizes, r.value)
                /\ i' = i + 1
                /\ pc' = "hunkSizes"
    /\ UNCHANGED <<stream, capacity, uintBits, hTableSize, firstHunk, lastHunk,
                   totalHunks, hunk, n, relocI, lwNumber, out, blockAt, rewinds, firstRun, mainVars>>

\* hunkSizes returns; processFile prints the sizes and enters the loop over
\* the hunks.
hunkSizesReturn ==
    /\ pc = "hunkSizes"
    /\ ~hunkSizesMore(i, totalHunks, uintBits)
    /\ out' = out \o [k \in 1..Len(hSizes) |-> <<"Memory size for hunk", hSizes[k]>>]
                \o <<<<"====", <<>>>>>>
    /\ hunk' = 0
    /\ pc' = "processHunks"
    /\ UNCHANGED <<stream, capacity, uintBits, offset, hTableSize, firstHunk, lastHunk,
                   totalHunks, hSizes, i, n, relocI, lwNumber, blockAt, rewinds, firstRun, mainVars>>

\* The loop of processFile over the hunks: i < int(totalHunks).
processHunks ==
    /\ pc = "processHunks"
    /\ IF IntLess(hunk, totalHunks, uintBits)
       THEN /\ out' = out \o <<<<"Dumping Hunk", <<hunk>>>>, <<"----", <<>>>>>>
            /\ pc' = "dumpHunkBlock"
       ELSE /\ out' = out
            /\ pc' = "done"
    /\ UNCHANGED <<stream, capacity, uintBits, offset, hTableSize, firstHunk, lastHunk,
                   totalHunks, hSizes, hunk, i, n, relocI, lwNumber, blockAt, rewinds, firstRun, mainVars>>

showHunkType(hunkType) ==
    IF hunkType[1] = 0 /\ hunkType[2] \in hunkTypeMap
    THEN <<hunkType[2]>>
    ELSE <<>>                       \* "Unknown hunk block type"

\* dispatch with the hunk ended by every tag that has no decoder.
dispatchOthersEnd(hunkType) ==
    CASE hunkType = U(HunkCode) -> "dumpCodeBlock"
      [] hunkType = U(HunkReloc32) -> "dumpReloc32Block"
      [] hunkType = U(HunkData) -> "dumpDataBlock"
      [] hunkType = U(HunkBSS) -> "dumpBSSBlock"
      [] OTHER -> "processHunks"

\* dispatch with a Code block skipped the way a Data block is.
dispatchCodeAsData(hunkType) ==
    CASE hunkType = U(HunkCode) -> "dumpDataBlock"
      [] hunkType = U(HunkReloc32) -> "dumpReloc32Block"
      [] hunkType = U(HunkData) -> "dumpDataBlock"
      [] hunkType = U(HunkBSS) -> "dumpBSSBlock"
      [] hunkType = U(HunkEnd) -> "processHunks"
      [] OTHER -> "dumpHunkBlock"

\* Where dumpHunkBlock goes after the tag.
dispatch(hunkType) ==
    CASE hunkType = U(HunkCode) -> "dumpCodeBlock"
      [] hunkType = U(HunkReloc32) -> "dumpReloc32Block"
      [] hunkType = U(HunkData) -> "dumpDataBlock"
      [] hunkType = U(HunkBSS) -> "dumpBSSBlock"
      [] hunkType = U(HunkEnd) -> "processHunks"
      [] OTHER -> "dumpHunkBlock"

\* dumpHunkBlock: the tag, and for a block without a decoder the return.
dumpHunkBlock ==
    /\ pc = "dumpHunkBlock"
    /\ LET r == nextLongWord
           to == dispatch(r.value)
       IN  IF ~r.ok
           THEN Panic(r.offset) /\ UNCHANGED <<out, hunk, blockAt>>
           ELSE /\ offset' = r.offset
                /\ blockAt' = [offset |-> offset, out |-> Len(out)]
                /\ pc' = to
                /\ hunk' = IF to = "processHunks" THEN hunk + 1 ELSE hunk
                /\ out' = out \o <<<<"Hunk block type", showHunkType(r.value)>>>>
                               \o (CASE to = "processHunks" -> <<<<"====", <<>>>>>>
                                     [] to = "dumpHunkBlock" -> <<<<"----", <<>>>>>>
                                     [] OTHER -> <<>>)
    /\ UNCHANGED <<stream, capacity, uintBits, hTableSize, firstHunk, lastHunk,
                   totalHunks, hSizes, i, n, relocI, lwNumber, rewinds, firstRun, mainVars>>

\* The size in bytes the block decoders print: size * LONGWORD_SIZE, in uint32.
sizeInBytes(size) == U32MulSmall(size, LONGWORD_SIZE)

\* dumpHunkBlock returns false after a decoded block, and processFile prints
\* the separator between blocks.
BlockReturns(lines) ==
    /\ out' = lines \o <<<<"----", <<>>>>>>
    /\ pc' = "dumpHunkBlock"

\* dumpCodeBlock: the count.
dumpCodeBlock ==
    /\ pc = "dumpCodeBlock"
    /\ LET r == nextLongWord
       IN  IF ~r.ok
           THEN Panic(r.offset) /\ UNCHANGED <<out, n, i, lwNumber>>
           ELSE /\ offset' = r.offset
                /\ n' = r.value
                /\ out' = out \o <<<<"Code block size", r.value \o sizeInBytes(r.value)>>,
                                   <<"Code:", <<>>>>>>
                /\ lwNumber' = 0
                /\ i' = 0
                /\ pc' = "codeLoop"
    /\ UNCHANGED <<stream, capacity, uintBits, hTableSize, firstHunk, lastHunk,
                   totalHunks, hSizes, hunk, relocI, blockAt, rewinds, firstRun, mainVars>>

\* codeMore that stops at the end of the first line of the dump.
codeMoreOneLine(k, hunkSize, bits) == k < longWordsPerLine /\ IntLess(k, hunkSize, bits)

\* The loop test of dumpCodeBlock: i < int(hunkSize).
codeMore(k, hunkSize, bits) == IntLess(k, hunkSize, bits)

\* One iteration of the loop of dumpCodeBlock: a long word of code, and a line
\* break after every longWordsPerLine of them.
codeLoop ==
    /\ pc = "codeLoop"
    /\ codeMore(i, n, uintBits)
    /\ LET r == nextLongWordAsSlice
       IN  IF ~r.ok
           THEN Panic(r.offset) /\ UNCHANGED <<out, i, lwNumber>>
           ELSE /\ offset' = r.offset
                /\ i' = i + 1
                /\ IF lwNumber + 1 = longWordsPerLine
                   THEN /\ out' = out \o <<<<"code", r.slice>>, <<"newline", <<>>>>>>
                        /\ lwNumber' = 0
                   ELSE /\ out' = Printf("code", r.slice)
                        /\ lwNumber' = lwNumber + 1
                /\ pc' = "codeLoop"
    /\ UNCHANGED <<stream, capacity, uintBits, hTableSize, firstHunk, lastHunk,
                   totalHunks, hSizes, hunk, n, relocI, blockAt, rewinds, firstRun, mainVars>>

\* dumpCodeBlock returns.
codeReturn ==
    /\ pc = "codeLoop"
    /\ ~codeMore(i, n, uintBits)
    /\ BlockReturns(Printf("newline", <<>>))
    /\ UNCHANGED <<stream, capacity, uintBits, offset, hTableSize, firstHunk, lastHunk,
                   totalHunks, hSizes, hunk, i, n, relocI, lwNumber, blockAt, rewinds, firstRun, mainVars>>

\* dumpReloc32Block: the first N.
dumpReloc32Block ==
    /\ pc = "dumpReloc32Block"
    /\ LET r == nextLongWord
       IN  IF ~r.ok
           THEN Panic(r.offset) /\ UNCHANGED <<n, relocI>>
           ELSE /\ offset' = r.offset
                /\ n' = r.value
                /\ relocI' = 0
                /\ pc' = "relocLoop"
    /\ UNCHANGED <<stream, capacity, uintBits, hTableSize, firstHunk, lastHunk,
                   totalHunks, hSizes, hunk, i, lwNumber, out, blockAt, rewinds, firstRun, mainVars>>

\* The head of a group: n is not 0, and the target hunk number follows.
relocGroup ==
    /\ pc = "relocLoop"
    /\ n # U(0)
    /\ LET r == nextLongWord
           line == <<"N", <<relocI + 1>> \o n>>
       IN  IF ~r.ok
           THEN Panic(r.offset) /\ out' = out \o <<line>> /\ UNCHANGED i
           ELSE /\ offset' = r.offset
                /\ out' = out \o <<line, <<"Hunk number", <<relocI + 1>> \o r.value>>>>
                /\ i' = 0
                /\ pc' = "relocOffsets"
    /\ UNCHANGED <<stream, capacity, uintBits, hTableSize, firstHunk, lastHunk,
                   totalHunks, hSizes, hunk, n, relocI, lwNumber, blockAt, rewinds, firstRun, mainVars>>

\* relocMore with offs <= int(n).
relocMoreInclusive(offs, cnt, bits) == offs = 0 \/ IntLess(offs - 1, cnt, bits)

\* The test of the loop over the offsets of a group: offs < int(n).
relocMore(offs, cnt, bits) == IntLess(offs, cnt, bits)

\* One offset of a group.
relocOffset ==
    /\ pc = "relocOffsets"
    /\ relocMore(i, n, uintBits)
    /\ LET r == nextLongWordAsSlice
       IN  IF ~r.ok
           THEN Panic(r.offset) /\ UNCHANGED <<out, i>>
           ELSE /\ offset' = r.offset
                /\ out' = Printf("Offset", <<i>> \o r.slice)
                /\ i' = i + 1
                /\ pc' = "relocOffsets"
    /\ UNCHANGED <<stream, capacity, uintBits, hTableSize, firstHunk, lastHunk,
                   totalHunks, hSizes, hunk, n, relocI, lwNumber, blockAt, rewinds, firstRun, mainVars>>

\* The end of a group: the next N.
relocNext ==
    /\ pc = "relocOffsets"
    /\ ~relocMore(i, n, uintBits)
    /\ LET r == nextLongWord
       IN  IF ~r.ok
           THEN Panic(r.offset) /\ UNCHANGED <<n, relocI>>
           ELSE /\ offset' = r.offset
                /\ relocI' = relocI + 1
                /\ n' = r.value
                /\ pc' = "relocLoop"
    /\ UNCHANGED <<stream, capacity, uintBits, hTableSize, firstHunk, lastHunk,
                   totalHunks, hSizes, hunk, i, lwNumber, out, blockAt, rewinds, firstRun, mainVars>>

\* dumpReloc32Block returns on N = 0.
relocReturn ==
    /\ pc = "relocLoop"
    /\ n = U(0)
    /\ BlockReturns(out)
    /\ UNCHANGED <<stream, capacity, uintBits, offset, hTableSize, firstHunk, lastHunk,
                   totalHunks, hSizes, hunk, i, n, relocI, lwNumber, blockAt, rewinds, firstRun, mainVars>>

\* dumpDataBlock: the count.
dumpDataBlock ==
    /\ pc = "dumpDataBlock"
    /\ LET r == nextLongWord
       IN  IF ~r.ok
           THEN Panic(r.offset) /\ UNCHANGED <<out, n>>
           ELSE /\ offset' = r.offset
                /\ n' = r.value
                /\ out' = Printf("Data block size", r.value \o sizeInBytes(r.value))
                /\ pc' = "dataSkip"
    /\ UNCHANGED <<stream, capacity, uintBits, hTableSize, firstHunk, lastHunk,
                   totalHunks, hSizes, hunk, i, relocI, lwNumber, blockAt, rewinds, firstRun, mainVars>>

\* dataSkipBytes without the scaling by LONGWORD_SIZE.
dataSkipBytesUnscaled(blockSize) == blockSize

\* The bytes dumpDataBlock skips: uint(blockSize * LONGWORD_SIZE), the product
\* taken in uint32.
dataSkipBytes(blockSize) == U32MulSmall(blockSize, LONGWORD_SIZE)

\* dumpDataBlock: the payload is skipped, and the block returns.
dataSkip ==
    /\ pc = "dataSkip"
    /\ rewinds < MaxRewinds
    /\ offset' = advancePointer(dataSkipBytes(n))
    /\ rewinds' = IF UintLe(offset, offset') THEN rewinds ELSE rewinds + 1
    /\ BlockReturns(out)
    /\ UNCHANGED <<stream, capacity, uintBits, hTableSize, firstHunk, lastHunk,
                   totalHunks, hSizes, hunk, i, n, relocI, lwNumber, blockAt, firstRun, mainVars>>

\* dumpBSSBlock with the N long words skipped as the payload of a Data block is.
dumpBSSBlockSkipping ==
    /\ pc = "dumpBSSBlock"
    /\ LET r == nextLongWord
       IN  IF ~r.ok
           THEN Panic(r.offset) /\ UNCHANGED <<out, n>>
           ELSE /\ offset' = r.offset
                /\ n' = r.value
                /\ out' = Printf("BSS block size", r.value \o sizeInBytes(r.value))
                /\ pc' = "dataSkip"
    /\ UNCHANGED <<stream, capacity, uintBits, hTableSize, firstHunk, lastHunk,
                   totalHunks, hSizes, hunk, i, relocI, lwNumber, blockAt, rewinds, firstRun, mainVars>>

\* dumpBSSBlock: the count, and the block returns.
dumpBSSBlock ==
    /\ pc = "dumpBSSBlock"
    /\ LET r == nextLongWord
       IN  IF ~r.ok
           THEN Panic(r.offset) /\ UNCHANGED <<out, n>>
           ELSE /\ offset' = r.offset
                /\ n' = r.value
                /\ BlockReturns(Printf("BSS block size", r.value \o sizeInBytes(r.value)))
    /\ UNCHANGED <<stream, capacity, uintBits, hTableSize, firstHunk, lastHunk,
                   totalHunks, hSizes, hunk, i, relocI, lwNumber, blockAt, rewinds, firstRun, mainVars>>

processFile ==
    \/ checkHunkHeader
    \/ residentLibraries
    \/ hunkTableSize
    \/ firstHunkNumber
    \/ lastHunkNumber
    \/ hunkSizes
    \/ hunkSizesReturn
    \/ processHunks
    \/ dumpHunkBlock
    \/ dumpCodeBlock
    \/ codeLoop
    \/ codeReturn
    \/ dumpReloc32Block
    \/ relocGroup
    \/ relocOffset
    \/ relocNext
    \/ relocReturn
    \/ dumpDataBlock
    \/ dataSkip
    \/ dumpBSSBlock

---------------------------------------------------------------------------
(* src/main.go: the header and hunk-table pass with the offset threaded     *)
(* through the calls.                                                       *)

RESIDENT_LIBRARIES_START == 4

main_longWordSlice(s, low) ==
    <<ByteAt(s, low[2]), ByteAt(s, low[2] + 1), ByteAt(s, low[2] + 2),
      ByteAt(s, low[2] + 3)>>

main_longWordValue(s, low) ==
    LET slice == main_longWordSlice(s, low)
    IN  U32Add(U32Add(U32Add(U(slice[4]), U32Shl(U(slice[3]), 8)),
                      U32Shl(U(slice[2]), 16)),
               U32Shl(U(slice[1]), 24))

main_Printf(kind, payload) == main_out \o <<<<kind, payload>>>>

\* The value of content[0] == 0x00 && content[1] == 0x00 && content[2] == 0x03
\* && content[3] == 0xf3.  The operands are index expressions, checked against
\* len(content), and && evaluates them from the left and stops at the first
\* one that is false: "panic" when the first index out of range is reached
\* before any byte differs.
main_headerBytes(content) ==
    LET cookie == <<0, 0, 3, 243>>
        stop == {k \in 1..LONGWORD_SIZE : k > Len(content) \/ content[k] # cookie[k]}
        first == CHOOSE k \in stop : \A j \in stop : k <= j
    IN  IF stop = {} THEN "true"
        ELSE IF first > Len(content) THEN "panic" ELSE "false"

\* checkHunkHeader of src/main.go, and processFile's return on a wrong header.
main_checkHunkHeader ==
    /\ main_pc = "checkHunkHeader"
    /\ LET r == main_headerBytes(stream)
       IN  /\ main_pc' = CASE r = "panic" -> "panic"
                          [] r = "true" -> "residentLibraries"
                          [] OTHER -> "badHeader"
           /\ main_out' = CASE r = "panic" -> main_out
                           [] r = "true" -> main_Printf("Header check OK", <<>>)
                           [] OTHER -> main_Printf("Incorrect header for Amiga Executable", <<>>)
    /\ UNCHANGED <<stream, capacity, uintBits, bufferVars, main_offset, main_hTableSize,
                   main_firstHunk, main_lastHunk, main_totalHunks, main_hSizes, main_i>>

\* residentLibraries of src/main.go: the word at RESIDENT_LIBRARIES_START.
main_residentLibraries ==
    /\ main_pc = "residentLibraries"
    /\ LET low == U(RESIDENT_LIBRARIES_START)
           value == main_longWordValue(stream, low)
       IN  IF ~SliceInBounds(low, capacity, uintBits)
           THEN main_pc' = "panic" /\ UNCHANGED <<main_out, main_offset>>
           ELSE IF value # U(0)
                THEN /\ main_out' = main_Printf("Calls to resident libraries found", <<>>)
                     /\ main_pc' = "osExit0"
                     /\ UNCHANGED main_offset
                ELSE /\ main_out' = main_Printf("No calls to resident libraries found", <<>>)
                     /\ main_offset' = U(RESIDENT_LIBRARIES_START + LONGWORD_SIZE)
                     /\ main_pc' = "hunkTableSize"
    /\ UNCHANGED <<stream, capacity, uintBits, bufferVars, main_hTableSize,
                   main_firstHunk, main_lastHunk, main_totalHunks, main_hSizes, main_i>>

main_hunkTableSize ==
    /\ main_pc = "hunkTableSize"
    /\ IF ~SliceInBounds(main_offset, capacity, uintBits)
       THEN main_pc' = "panic" /\ UNCHANGED <<main_out, main_offset, main_hTableSize>>
       ELSE /\ main_hTableSize' = main_longWordValue(stream, main_offset)
            /\ main_offset' = UintAdd(main_offset, U(LONGWORD_SIZE), uintBits)
            /\ main_out' = main_Printf("Hunk table size", main_hTableSize')
            /\ main_pc' = "firstHunkNumber"
    /\ UNCHANGED <<stream, capacity, uintBits, bufferVars,
                   main_firstHunk, main_lastHunk, main_totalHunks, main_hSizes, main_i>>

main_firstHunkNumber ==
    /\ main_pc = "firstHunkNumber"
    /\ IF ~SliceInBounds(main_offset, capacity, uintBits)
       THEN main_pc' = "panic" /\ UNCHANGED <<main_out, main_offset, main_firstHunk>>
       ELSE /\ main_firstHunk' = main_longWordValue(stream, main_offset)
            /\ main_offset' = UintAdd(main_offset, U(LONGWORD_SIZE), uintBits)
            /\ main_out' = main_Printf("First hunk", main_firstHunk')
            /\ main_pc' = "lastHunkNumber"
    /\ UNCHANGED <<stream, capacity, uintBits, bufferVars,
                   main_hTableSize, main_lastHunk, main_totalHunks, main_hSizes, main_i>>

\* lastHunkNumber of src/main.go, and processFile's computation of totalHunks.
main_lastHunkNumber ==
    /\ main_pc = "lastHunkNumber"
    /\ IF ~SliceInBounds(main_offset, capacity, uintBits)
       THEN /\ main_pc' = "panic"
            /\ UNCHANGED <<main_out, main_offset, main_lastHunk, main_totalHunks,
                           main_hSizes, main_i>>
       ELSE /\ main_lastHunk' = main_longWordValue(stream, main_offset)
            /\ main_offset' = UintAdd(main_offset, U(LONGWORD_SIZE), uintBits)
            /\ main_totalHunks' = U32Add(U32Sub(main_lastHunk', main_firstHunk), U(1))
            /\ main_out' = main_out \o <<<<"Last hunk", main_lastHunk'>>,
                                           <<"Total number of hunks in file", main_totalHunks'>>>>
            /\ main_hSizes' = <<>>
            /\ main_i' = 0
            /\ main_pc' = "hunkSizes"
    /\ UNCHANGED <<stream, capacity, uintBits, bufferVars, main_hTableSize, main_firstHunk>>

\* One iteration of the loop of hunkSizes of src/main.go.
main_hunkSizes ==
    /\ main_pc = "hunkSizes"
    /\ IntLess(main_i, main_totalHunks, uintBits)
    /\ IF ~SliceInBounds(main_offset, capacity, uintBits)
       THEN main_pc' = "panic" /\ UNCHANGED <<main_offset, main_hSizes, main_i>>
       ELSE /\ main_hSizes' = Append(main_hSizes, main_longWordValue(stream, main_offset))
            /\ main_offset' = UintAdd(main_offset, U(LONGWORD_SIZE), uintBits)
            /\ main_i' = main_i + 1
            /\ main_pc' = "hunkSizes"
    /\ UNCHANGED <<stream, capacity, uintBits, bufferVars, main_hTableSize, main_firstHunk,
                   main_lastHunk, main_totalHunks, main_out>>

\* hunkSizes of src/main.go returns; processFile prints the sizes and returns.
main_hunkSizesReturn ==
    /\ main_pc = "hunkSizes"
    /\ ~IntLess(main_i, main_totalHunks, uintBits)
    /\ main_out' = main_out \o [k \in 1..Len(main_hSizes) |->
                                    <<"Size for hunk", main_hSizes[k]>>]
    /\ main_pc' = "done"
    /\ UNCHANGED <<stream, capacity, uintBits, bufferVars, main_offset, main_hTableSize,
                   main_firstHunk, main_lastHunk, main_totalHunks, main_hSizes, main_i>>

main_processFile ==
    \/ main_checkHunkHeader
    \/ main_residentLibraries
    \/ main_hunkTableSize
    \/ main_firstHunkNumber
    \/ main_lastHunkNumber
    \/ main_hunkSizes
    \/ main_hunkSizesReturn

---------------------------------------------------------------------------
(* The specifications. *)

Next == processFile

Spec == Init /\ [][Next]_vars

\* The header check alone, of both programs, over every file of four bytes
\* drawn from HeaderBytes: the bytes of the magic cookie and others.
HeaderBytes == {0, 1, 3, 242, 243, 255}

HeaderImages == {<<a, b, c, d>> : a, b, c, d \in HeaderBytes}

InitHeader == Loaded(HeaderImages)

NextHeader == checkHunkHeader \/ main_checkHunkHeader

SpecHeader == InitHeader /\ [][NextHeader]_vars

\* The decode has returned, or the process has exited or died.
Ended == pc \in {"done", "badHeader", "osExit0", "panic"}

\* A second decode of the same bytes, once the first has ended: createBuffer
\* on the bytes again, and processFile from its start.
runAgain ==
    /\ Ended
    /\ firstRun.pc = ""
    /\ firstRun' = [firstRun EXCEPT !.pc = pc, !.offset = offset, !.out = out]
    /\ stream' = createBuffer(stream).stream
    /\ offset' = createBuffer(stream).offset
    /\ pc' = "checkHunkHeader"
    /\ hTableSize' = U(0)
    /\ firstHunk' = U(0)
    /\ lastHunk' = U(0)
    /\ totalHunks' = U(0)
    /\ hSizes' = <<>>
    /\ hunk' = 0
    /\ i' = 0
    /\ n' = U(0)
    /\ relocI' = 0
    /\ lwNumber' = 0
    /\ out' = <<>>
    /\ blockAt' = [offset |-> U(0), out |-> 0]
    /\ rewinds' = 0
    /\ UNCHANGED <<capacity, uintBits, mainVars>>

\* The files decoded twice: every header and resident-library word, a table of
\* one hunk and at most one block, whole and cut after any number of bytes.
TwiceImages ==
    UNION { Prefixes(Flatten(<<hd, res, U(3), U(0), U(0), U(16)>> \o b \o <<U(HunkEnd)>>)) :
        hd \in {MagicCookie, NotMagic}, res \in {U(0), U(1)}, b \in BlockSeqs(1) }

InitTwice == Loaded(TwiceImages)

NextTwice == processFile \/ runAgain

SpecTwice == InitTwice /\ [][NextTwice]_vars

\* The header and hunk-table pass of both programs on the same buffer: every
\* hunk table after a good header, every header and resident-library word
\* before a table of one hunk, and each file cut after any number of bytes.
PassImages ==
    UNION { Prefixes(Flatten(<<MagicCookie, U(0), U(3)>> \o t \o <<U(HunkEnd)>>)) :
        t \in Tables }
    \cup
    UNION { Prefixes(Flatten(<<hd, res, U(1), U(0), U(0), U(16), U(HunkEnd)>>)) :
        hd \in {MagicCookie, NotMagic, <<243 * 256 + 3, 0>>},
        res \in {U(0), U(1), <<256, 0>>} }

InitPass == Loaded(PassImages)

\* processFile of part_000 up to the return of hunkSizes, and processFile of
\* src/main.go.
NextPass ==
    \/ checkHunkHeader
    \/ residentLibraries
    \/ hunkTableSize
    \/ firstHunkNumber
    \/ lastHunkNumber
    \/ hunkSizes
    \/ hunkSizesReturn
    \/ main_processFile

SpecPass == InitPass /\ [][NextPass]_vars

---------------------------------------------------------------------------
(* Notions the properties are stated in. *)

\* The sum of two numbers as natural numbers, without any wrapping.
Plus(a, b) == UintAdd(a, b, 64)

\* b0 * 2^24 + b1 * 2^16 + b2 * 2^8 + b3, as the pair of its 16-bit halves.
BigEndian(b) == <<b[1] * 256 + b[2], b[3] * 256 + b[4]>>

\* The long word the file holds at byte position p, if the file holds all of it.
FileBytes(p) == SubSeq(stream, p + 1, p + LONGWORD_SIZE)
FileWord(p) == BigEndian(FileBytes(p))
InFile(p) == p + LONGWORD_SIZE <= Len(stream)

HasLine(kind) == \E k \in 1..Len(out) : out[k][1] = kind

\* The next step of the decode is a read of one long word.
ReadPending ==
    \/ pc \in {"checkHunkHeader", "residentLibraries", "hunkTableSize",
               "firstHunkNumber", "lastHunkNumber", "dumpHunkBlock", "dumpCodeBlock",
               "dumpReloc32Block", "dumpDataBlock", "dumpBSSBlock", "relocOffsets"}
    \/ pc = "hunkSizes" /\ hunkSizesMore(i, totalHunks, uintBits)
    \/ pc = "codeLoop" /\ codeMore(i, n, uintBits)
    \/ pc = "relocLoop" /\ n # U(0)

\* Fewer than 4 bytes of the file remain at the cursor.
ShortOfBytes == ~UintLe(Plus(offset, U(LONGWORD_SIZE)), U(Len(stream)))

---------------------------------------------------------------------------
(* C1 *)

\* C1: in every reachable state of a decode the cursor is inside the buffer:
\* 0 <= offset <= len(stream) (an unsigned offset is never below 0).
C1_OffsetWithinStream == UintLe(offset, U(Len(stream)))

---------------------------------------------------------------------------
(* C2 *)

\* C2: whenever a long word is expected and fewer than 4 bytes remain at the
\* cursor, the decode ends in an OutOfBounds error outcome reported by the
\* driver.  processFile has no such outcome: its ends are "done", "badHeader",
\* "osExit0" and the runtime's "panic".
C2_ShortReadIsOutOfBounds ==
    [][(ReadPending /\ ShortOfBytes) => pc' = "outOfBounds"]_vars

---------------------------------------------------------------------------
(* C3 *)

\* C3: every read moves the offset forward by exactly 4, advancePointer(k) by
\* exactly k, and no step of the decode moves the offset backward.
C3_OffsetMovesForward ==
    [][/\ ReadPending => offset' = Plus(offset, U(LONGWORD_SIZE))
       /\ pc = "dataSkip" => offset' = Plus(offset, dataSkipBytes(n))
       /\ UintLe(offset, offset')]_vars

---------------------------------------------------------------------------
(* C4 *)

\* C4: wherever the cursor stands in range, the value nextLongWord returns is
\* the big-endian reading b0*2^24 + b1*2^16 + b2*2^8 + b3 of the four bytes
\* nextLongWordAsSlice returns there, and both leave the cursor at the same place.
C4_ValueIsBigEndianOfSlice ==
    nextLongWord.ok =>
        /\ nextLongWordAsSlice.ok
        /\ nextLongWord.offset = nextLongWordAsSlice.offset
        /\ nextLongWord.value = BigEndian(nextLongWordAsSlice.slice)

\* A read of a word whose four bytes all differ (0xAABBCCDD) is about to happen.
C4_Witness ==
    /\ nextLongWord.ok
    /\ nextLongWordAsSlice.slice = <<170, 187, 204, 221>>
    /\ nextLongWord.value = WordA

---------------------------------------------------------------------------
(* C5 *)

\* C5: in every reachable state the cursor offset is a multiple of 4, also
\* after the skip of a Data block, whose length is the 32-bit product
\* blockSize * 4.
C5_OffsetAligned == offset[2] % LONGWORD_SIZE = 0

\* A Data block of count 0x40000001 has been skipped: the product wrapped to 4.
C5_Witness ==
    /\ pc = "dumpHunkBlock"
    /\ n = WrapTo4
    /\ out[blockAt.out + 1] = <<"Hunk block type", <<HunkData>>>>
    /\ offset = Plus(blockAt.offset, U(3 * LONGWORD_SIZE))

---------------------------------------------------------------------------
(* C6 *)

\* The first and last hunk numbers have been read.
TableHeaderRead == HasLine("Last hunk")

\* C6: when last < first or the hunk count computes to 0, the decode ends in a
\* reported MalformedTable error: it reads no hunk size and no block, and it
\* does not end as a normal decode with an empty report.
C6_MalformedTableReported ==
    (TableHeaderRead /\ (~UintLe(firstHunk, lastHunk) \/ totalHunks = U(0))) =>
        /\ pc \notin {"done", "dumpHunkBlock"}
        /\ hSizes = <<>>

---------------------------------------------------------------------------
(* C7 *)

\* last - first + 1 as a natural number; -1 where it is beyond any buffer.
MathCount ==
    IF lastHunk[1] - firstHunk[1] > 1 THEN -1
    ELSE (lastHunk[1] - firstHunk[1]) * Half + lastHunk[2] - firstHunk[2] + 1

TableStart == 2 * LONGWORD_SIZE
SizesStart == 5 * LONGWORD_SIZE

\* hunkSizes has returned.
SizesReturned == HasLine("====")

\* C7: after the header and a zero resident-library word the decode reads the
\* table size, the first and the last hunk number in that order, and then
\* exactly last - first + 1 long words as the hunk sizes: for first <= last and
\* a file that holds them all, hSizes has length last - first + 1, holds the
\* file's long words in order, and the cursor stands right after them.
C7_HunkSizeArray ==
    (/\ SizesReturned
     /\ UintLe(firstHunk, lastHunk)
     /\ MathCount >= 0
     /\ SizesStart + LONGWORD_SIZE * MathCount <= Len(stream)) =>
        /\ hTableSize = FileWord(TableStart)
        /\ firstHunk = FileWord(TableStart + LONGWORD_SIZE)
        /\ lastHunk = FileWord(TableStart + 2 * LONGWORD_SIZE)
        /\ Len(hSizes) = MathCount
        /\ \A k \in 1..Len(hSizes) :
               hSizes[k] = FileWord(SizesStart + LONGWORD_SIZE * (k - 1))
        /\ pc = "processHunks" /\ hunk = 0 =>
               offset = U(SizesStart + LONGWORD_SIZE * MathCount)

\* first = 0 and last = 2: three sizes have been read.
C7_Witness ==
    /\ pc = "processHunks"
    /\ hunk = 0
    /\ firstHunk = U(0)
    /\ lastHunk = U(2)
    /\ hSizes = <<U(16), U(32), U(48)>>

---------------------------------------------------------------------------
(* C8 *)

\* The lines printed for the current block, after the line of its tag.
BlockLines == SubSeq(out, blockAt.out + 2, Len(out))
BlockIs(tag) ==
    /\ pc \in {"dumpCodeBlock", "codeLoop", "dumpReloc32Block", "relocLoop",
               "relocOffsets", "dumpDataBlock", "dataSkip", "dumpBSSBlock",
               "dumpHunkBlock"}
    /\ blockAt.out < Len(out)
    /\ out[blockAt.out + 1] = <<"Hunk block type", <<tag>>>>
BlockReturned == pc = "dumpHunkBlock"
Separator == <<"----", <<>>>>
PayloadStart == blockAt.offset[2] + LONGWORD_SIZE

IsPrefix(s, t) == Len(s) <= Len(t) /\ s = SubSeq(t, 1, Len(s))

RECURSIVE RelocGroups(_, _)
\* The groups of a Reloc32 payload at file position p, as the format defines
\* them, the first of them numbered j: whether the file holds a whole payload,
\* the lines that report its groups, and the position after its terminator.
RelocGroups(p, j) ==
    IF ~InFile(p) THEN [ok |-> FALSE, lines |-> <<>>, end |-> p]
    ELSE LET cnt == FileWord(p)
             offsets == p + 2 * LONGWORD_SIZE
         IN  IF cnt = U(0) THEN [ok |-> TRUE, lines |-> <<>>, end |-> p + LONGWORD_SIZE]
             ELSE IF cnt[1] # 0 \/ offsets + LONGWORD_SIZE * cnt[2] > Len(stream)
             THEN [ok |-> FALSE, lines |-> <<>>, end |-> p]
             ELSE LET rest == RelocGroups(offsets + LONGWORD_SIZE * cnt[2], j + 1)
                  IN  [ok |-> rest.ok,
                       lines |->
                           <<<<"N", <<j>> \o cnt>>,
                             <<"Hunk number", <<j>> \o FileWord(p + LONGWORD_SIZE)>>>>
                           \o [k \in 1..cnt[2] |->
                                  <<"Offset",
                                    <<k - 1>> \o FileBytes(offsets + LONGWORD_SIZE * (k - 1))>>]
                           \o rest.lines,
                       end |-> rest.end]

\* C8: a Reloc32 payload of k >= 0 groups (N, hunk number, N offsets) and a 0
\* decodes to exactly those k groups in order: at every moment the groups
\* reported are the first of them, and when the block returns they are all of
\* them, the 0 has been read without a group, and the cursor stands right
\* after it.
C8_Reloc32Groups ==
    (BlockIs(HunkReloc32) /\ RelocGroups(PayloadStart, 1).ok) =>
        LET want == RelocGroups(PayloadStart, 1)
        IN  IF BlockReturned
            THEN BlockLines = want.lines \o <<Separator>> /\ offset = U(want.end)
            ELSE IsPrefix(BlockLines, want.lines)

\* The payload [2, 5, 0x10, 0x20, 0] has been decoded: one group.
C8_Witness ==
    /\ BlockIs(HunkReloc32)
    /\ BlockReturned
    /\ BlockLines = << <<"N", <<1, 0, 2>>>>, <<"Hunk number", <<1, 0, 5>>>>,
                       <<"Offset", <<0, 0, 0, 0, 16>>>>, <<"Offset", <<1, 0, 0, 0, 32>>>>,
                       Separator >>
    /\ offset = Plus(blockAt.offset, U(6 * LONGWORD_SIZE))

---------------------------------------------------------------------------
(* C9 *)

IsCodeLine(line) == line[1] = "code"

\* The long words of code reported for the current block.
CodeWords == LET lines == SelectSeq(BlockLines, IsCodeLine)
             IN  [k \in 1..Len(lines) |-> lines[k][2]]

\* The count of the current Code block, and whether the file holds the payload.
CodeCount == FileWord(PayloadStart)
CodeHeld ==
    /\ InFile(PayloadStart)
    /\ CodeCount[1] = 0
    /\ PayloadStart + LONGWORD_SIZE * (1 + CodeCount[2]) <= Len(stream)

\* C9: a Code block of count N followed by N long words decodes to exactly
\* those N long words in order, whatever N is against the 4 long words of a
\* line: the words reported are at every moment the first of the payload, and
\* when the block returns they are all N and the cursor has moved 4 * (1 + N)
\* bytes past the tag.
C9_CodePayload ==
    (BlockIs(HunkCode) /\ pc # "dumpCodeBlock" /\ CodeHeld) =>
        LET want == [k \in 1..CodeCount[2] |->
                        FileBytes(PayloadStart + LONGWORD_SIZE * k)]
        IN  /\ BlockLines[1][1] = "Code block size"
            /\ SubSeq(BlockLines[1][2], 1, 2) = CodeCount
            /\ IF BlockReturned
               THEN /\ CodeWords = want
                    /\ offset = U(PayloadStart + LONGWORD_SIZE * (1 + CodeCount[2]))
               ELSE IsPrefix(CodeWords, want)

\* A Code block of 5 long words, one more than a line, has been decoded.
C9_Witness ==
    /\ BlockIs(HunkCode)
    /\ BlockReturned
    /\ CodeHeld
    /\ CodeCount = U(5)
    /\ Len(CodeWords) = 5
    /\ CodeWords[5] = BytesOf(U(HunkEnd))

---------------------------------------------------------------------------
(* C10 *)

\* C10: a nonzero word after the magic cookie ends the decode in an
\* UnsupportedFeature error, not in a success exit, with nothing of the hunk
\* table read; a zero word lets the decode go on with the cursor one long word
\* further.
C10_ResidentWord ==
    /\ (/\ pc \notin {"checkHunkHeader", "residentLibraries", "badHeader"}
        /\ InFile(LONGWORD_SIZE)
        /\ FileWord(LONGWORD_SIZE) # U(0)) =>
           pc # "osExit0" /\ ~HasLine("Hunk table size")
    /\ pc = "hunkTableSize" => offset = U(2 * LONGWORD_SIZE)

---------------------------------------------------------------------------
(* C11 *)

\* checkHunkHeader has returned: processFile has printed its decision.
HeaderChecked == pc \in {"residentLibraries", "badHeader"}
main_HeaderChecked == main_pc \in {"residentLibraries", "badHeader"}

\* The first four bytes of the file are 0x00, 0x00, 0x03, 0xF3.
StartsWithCookie ==
    /\ Len(stream) >= LONGWORD_SIZE
    /\ stream[1] = 0 /\ stream[2] = 0 /\ stream[3] = 3 /\ stream[4] = 243

\* C11: over a file of four bytes, checkHunkHeader (of either program)
\* returns true exactly when the four bytes are 0x00, 0x00, 0x03, 0xF3: the
\* decode goes on to the resident libraries if they are, and reports an
\* incorrect header if any byte differs.
C11_HeaderIffCookie ==
    /\ HeaderChecked => (pc = "residentLibraries" <=> StartsWithCookie)
    /\ main_HeaderChecked => (main_pc = "residentLibraries" <=> StartsWithCookie)

\* Both programs have accepted a header, and the file does start with the cookie.
C11_Witness ==
    /\ pc = "residentLibraries"
    /\ main_pc = "residentLibraries"
    /\ StartsWithCookie

---------------------------------------------------------------------------
(* C12 *)

\* The smallest well-formed file: magic cookie, no resident libraries, a hunk
\* table of one hunk (first 0, last 0, one size), and the hunk: a Code block
\* of one long word, then End.
OneCodeHunk ==
    Flatten(<<MagicCookie, U(0), U(3), U(0), U(0), U(16),
              U(HunkCode), U(1), WordA, U(HunkEnd)>>)

RECURSIVE PayloadsOf(_, _)
\* What the lines of one kind report, in the order they were printed.
PayloadsOf(lines, kind) ==
    IF lines = <<>> THEN <<>>
    ELSE (IF Head(lines)[1] = kind THEN <<Head(lines)[2]>> ELSE <<>>)
         \o PayloadsOf(Tail(lines), kind)

\* C12: the file OneCodeHunk decodes without error: no panic, no header
\* failure and no early exit; and when the decode completes the cursor is at
\* the end of the file and the report is: header valid, no resident
\* libraries, one hunk, and in it a Code block of one long word (the one of
\* the file) followed by End, and no other block.
C12_OneCodeHunkDecodes ==
    stream = OneCodeHunk =>
        /\ pc \notin {"panic", "badHeader", "osExit0"}
        /\ pc = "done" =>
            /\ offset = U(Len(stream))
            /\ PayloadsOf(out, "Header check OK") = <<<<>>>>
            /\ PayloadsOf(out, "No calls to resident libraries found") = <<<<>>>>
            /\ PayloadsOf(out, "Total number of hunks in file") = <<U(1)>>
            /\ PayloadsOf(out, "Dumping Hunk") = <<<<0>>>>
            /\ PayloadsOf(out, "Hunk block type") = <<<<HunkCode>>, <<HunkEnd>>>>
            /\ PayloadsOf(out, "Code block size") = <<U(1) \o U(LONGWORD_SIZE)>>
            /\ PayloadsOf(out, "code") = <<BytesOf(WordA)>>
            /\ PayloadsOf(out, "Data block size") = <<>>
            /\ PayloadsOf(out, "BSS block size") = <<>>
            /\ PayloadsOf(out, "N") = <<>>

\* The decode of OneCodeHunk has completed.
C12_Witness == stream = OneCodeHunk /\ pc = "done"

---------------------------------------------------------------------------
(* C13 *)

---------------------------------------------------------------------------
(* C14 *)

\* The block tags read so far, in order (<<>> for a tag outside the closed set).
BlockTags == PayloadsOf(out, "Hunk block type")

IsEndTag(payload) == payload = <<HunkEnd>>

\* The number of End tags consumed as block tags, and of hunks started.
EndTags == Len(SelectSeq(BlockTags, IsEndTag))
HunksStarted == Len(PayloadsOf(out, "Dumping Hunk"))

\* The decode is inside the block loop of a hunk.
InBlockLoop ==
    pc \in {"dumpHunkBlock", "dumpCodeBlock", "codeLoop", "dumpReloc32Block",
            "relocLoop", "relocOffsets", "dumpDataBlock", "dataSkip", "dumpBSSBlock"}

\* C14: the block loop of a hunk is left exactly when the tag read is End, and
\* the driver runs it once per hunk: inside the loop of a hunk the End tags
\* read are those of the hunks before it, one for each, and no other;
\* between two hunks every hunk started has had its End read, so hunk i+1 is
\* never started before the End of hunk i; and when the decode completes, the
\* number of End tags read as block tags is totalHunks = last - first + 1.
C14_EndPerHunk ==
    /\ hunk = EndTags
    /\ InBlockLoop => HunksStarted = EndTags + 1
    /\ pc \in {"processHunks", "done"} => HunksStarted = EndTags
    /\ pc = "done" => U(EndTags) = totalHunks

---------------------------------------------------------------------------
(* C15 *)

\* 4 * x as a natural number, without any wrapping.
TimesLongWord(x) ==
    LET p == x[2] * LONGWORD_SIZE
    IN  <<x[1] * LONGWORD_SIZE + p \div Half, p % Half>>

\* C15: when a Data block of count N has been decoded, whatever N is, the
\* cursor stands exactly 4 * N bytes after the position that follows N, the
\* product taken as a natural number and not modulo 2^32: the next tag is read
\* at (offset of the block's tag) + 8 + 4 * N.
C15_DataSkipsFourN ==
    (BlockIs(HunkData) /\ BlockReturned) =>
        offset = Plus(Plus(blockAt.offset, U(2 * LONGWORD_SIZE)), TimesLongWord(n))

---------------------------------------------------------------------------
(* C16 *)

\* C16: every iteration of every loop consumes at least 4 bytes of the buffer,
\* so that no loop can go on forever in a finite buffer.  At the head of the
\* loop of hunkSizes and of the loop of dumpCodeBlock the cursor is 4 bytes
\* further for each iteration made; in the loops of dumpReloc32Block it is
\* beyond the block's first count; and at the head of the block loop, once an
\* iteration has been made, the cursor is at least 4 bytes beyond the place
\* where that iteration read its tag: the loop never comes back to a place
\* where it has been.
C16_EveryIterationConsumes ==
    /\ pc = "hunkSizes" => offset = U(SizesStart + LONGWORD_SIZE * i)
    /\ pc = "codeLoop" => offset = Plus(blockAt.offset, U(LONGWORD_SIZE * (2 + i)))
    /\ pc \in {"relocLoop", "relocOffsets"} =>
           UintLe(Plus(blockAt.offset, U(2 * LONGWORD_SIZE)), offset)
    /\ (pc = "dumpHunkBlock" /\ HasLine("Hunk block type")) =>
           UintLe(Plus(blockAt.offset, U(LONGWORD_SIZE)), offset)

---------------------------------------------------------------------------
(* C17 *)

\* The long word at the cursor, read from the bytes of the buffer.
WordAtCursor == BigEndian(longWordSlice(stream, offset))

\* The tags that have a decoder, and End.
DecodedTags == {U(HunkCode), U(HunkData), U(HunkBSS), U(HunkReloc32), U(HunkEnd)}

\* The tags that are only named.
NamedTags == {U(HunkUnit), U(HunkName), U(HunkReloc16)}

\* C17: when the tag read is Unit, Name, Reloc16 or a value outside the
\* closed set, the decoder consumes the 4 bytes of the tag and nothing else,
\* stays in the same hunk, and is about to read the next long word as a tag;
\* it reports the name of a named tag, and an unknown hunk block type for a
\* value outside the closed set.
C17_TagWithoutDecoder ==
    [][(pc = "dumpHunkBlock" /\ pc' # "panic" /\ WordAtCursor \notin DecodedTags) =>
          /\ offset' = Plus(offset, U(LONGWORD_SIZE))
          /\ pc' = "dumpHunkBlock"
          /\ hunk' = hunk
          /\ out' = out \o <<<<"Hunk block type",
                                IF WordAtCursor \in NamedTags
                                THEN <<WordAtCursor[2]>> ELSE <<>>>>,
                              Separator>>]_vars

\* Unit and then a value outside the closed set have been read as the tags of
\* two blocks of one hunk, and the cursor is right after the second.
C17_Witness ==
    /\ pc = "dumpHunkBlock"
    /\ Len(BlockTags) >= 2
    /\ BlockTags[Len(BlockTags) - 1] = <<HunkUnit>>
    /\ BlockTags[Len(BlockTags)] = <<>>
    /\ offset = Plus(blockAt.offset, U(LONGWORD_SIZE))
    /\ HunksStarted = 1

---------------------------------------------------------------------------
(* C18 *)

\* C18: when a BSS block has been decoded, whatever its count N, the cursor
\* stands exactly one long word after the tag's own four bytes, right after
\* N: nothing of what follows N has been consumed, and the next tag is read
\* there.  The block reports N, the long word the buffer holds after the tag.
C18_BSSReadsOnlyCount ==
    (BlockIs(HunkBSS) /\ BlockReturned) =>
        /\ offset = Plus(blockAt.offset, U(2 * LONGWORD_SIZE))
        /\ Len(BlockLines) = 2
        /\ BlockLines[1][1] = "BSS block size"
        /\ SubSeq(BlockLines[1][2], 1, 2) = BigEndian(longWordSlice(stream, U(PayloadStart)))
        /\ BlockLines[2] = Separator

\* A BSS block of count 0xFFFFFFFF has been decoded.
C18_Witness ==
    /\ BlockIs(HunkBSS)
    /\ BlockReturned
    /\ n = AllOnes
    /\ BlockLines[1][1] = "BSS block size"

---------------------------------------------------------------------------
(* C19 *)

\* C19: when the first long word is not the magic cookie, the only step the
\* decode ever makes is the read of that long word, after which it has
\* stopped with the header failure reported: the cursor is at offset 4 and
\* stays there, and the report holds the failure and no resident-library,
\* hunk-table or block item.  (Where the buffer has no first long word to
\* read, the read panics.)
C19_BadHeaderStops ==
    [][~StartsWithCookie =>
          /\ pc = "checkHunkHeader"
          /\ \/ pc' = "panic"
             \/ /\ pc' = "badHeader"
                /\ offset' = U(LONGWORD_SIZE)
                /\ out' = <<<<"Incorrect header for Amiga Executable", <<>>>>>>]_vars

\* The decode has stopped on a first long word that is not the cookie, in a
\* file that holds more long words after it.
C19_Witness ==
    /\ pc = "badHeader"
    /\ ~StartsWithCookie
    /\ Len(stream) >= 3 * LONGWORD_SIZE

---------------------------------------------------------------------------
(* C20 *)

RECURSIVE TableReport(_)
\* The report of the pass of part_000 in the words of src/main.go: the sizes
\* under main.go's label, and without the rule printed after them.
TableReport(lines) ==
    IF lines = <<>> THEN <<>>
    ELSE LET line == Head(lines)
         IN  (CASE line[1] = "====" -> <<>>
                [] line[1] = "Memory size for hunk" -> <<<<"Size for hunk", line[2]>>>>
                [] OTHER -> <<line>>)
             \o TableReport(Tail(lines))

\* Where the pass of part_000 stands, in the positions of src/main.go: the
\* pass is over when hunkSizes has returned and its sizes are printed.
PassAt == IF pc = "processHunks" THEN "done" ELSE pc

\* Both passes stand before the same field, or have ended.
AtSameField == PassAt = main_pc /\ (pc = "hunkSizes" => i = main_i)
PassEnded == PassAt \in {"done", "badHeader", "osExit0", "panic"}
main_PassEnded == main_pc \in {"done", "badHeader", "osExit0", "panic"}

\* C20: on every buffer the pass of src/main.go and the pass of part_000
\* agree.  When both stand before the same field they have made the same
\* header decision, read the same values and reported them, and the cursor
\* offset is the threaded offset (RESIDENT_LIBRARIES_START before the
\* resident-library word, nextOffset after it); and when both have ended
\* they have ended the same way, with the same values read and reported.
C20_PassesAgree ==
    /\ (AtSameField /\ ~PassEnded) =>
        /\ TableReport(out) = main_out
        /\ hTableSize = main_hTableSize
        /\ firstHunk = main_firstHunk
        /\ lastHunk = main_lastHunk
        /\ totalHunks = main_totalHunks
        /\ hSizes = main_hSizes
        /\ pc = "residentLibraries" => offset = U(RESIDENT_LIBRARIES_START)
        /\ pc \notin {"checkHunkHeader", "residentLibraries"} => offset = main_offset
    /\ (PassEnded /\ main_PassEnded) =>
        /\ PassAt = main_pc
        /\ TableReport(out) = main_out
        /\ hTableSize = main_hTableSize
        /\ firstHunk = main_firstHunk
        /\ lastHunk = main_lastHunk
        /\ totalHunks = main_totalHunks
        /\ hSizes = main_hSizes
        /\ main_pc = "done" => offset = main_offset

============================================================================
